---- MODULE Spec2Model ----
(***************************************************************************)
(* Model of the hotel-search backend (Backend/hotels.py) and of the        *)
(* listing filter (Backend/api/filter_data.py).                            *)
(*                                                                         *)
(* One request to POST /api/hotels/ is one run of list_hotels: it awaits   *)
(* get_access_token (token cache + OAuth2 POST), then list_hotels_helper   *)
(* (GET + filter), both wrapped by tenacity's @retry.  Requests run as     *)
(* asyncio coroutines: a request is suspended only while an HTTP request   *)
(* is in flight or while tenacity sleeps between two attempts.             *)
(***************************************************************************)
EXTENDS Integers, Sequences, FiniteSets, TLC

VARIABLES
    clock,       \* datetime.now(), in seconds
    cache,       \* _token_cache: [token, expires_at]
    call,        \* per request: the coroutine's position and locals
    calls,       \* number of requests started so far
    tokenPosts,  \* number of POSTs the identity endpoint has received
    files,       \* the JSON files of the data directory, by path
    filterRun    \* the last call of filter_json: its argument and how it ended

vars == <<clock, cache, call, calls, tokenPosts, files, filterRun>>

-----------------------------------------------------------------------------
(* Bounds of the model *)

NumCallers == 2     \* coroutines awaiting get_access_token_dep at the same time
MaxClock == 3       \* seconds the clock may advance
MaxCalls == 3       \* calls started in one behaviour
MaxHotels == 2      \* records in the data list of an input file
MaxRuns == 2        \* calls of filter_json in one behaviour

\* coroutines that call get_access_token through get_access_token_dep
Callers == 1..NumCallers
\* the coroutine that serves POST /api/hotels/ (list_hotels), one request after another
Requests == {NumCallers + 1}
Procs == Callers \cup Requests

-----------------------------------------------------------------------------
(* Python values: None and optional values *)

None == <<>>
Some(v) == <<v>>
Val(o) == o[1]

PyDict(d) == [type |-> "dict", val |-> d]
PyStr(s) == [type |-> "str", val |-> s]

(* The way a call ends: a returned value or a raised exception. *)
Pending == [kind |-> "pending", exc |-> "", status |-> None, detail |-> "", value |-> None]
Return(v) == [kind |-> "return", exc |-> "", status |-> None, detail |-> "", value |-> Some(v)]
ReturnNone == [kind |-> "return", exc |-> "", status |-> None, detail |-> "", value |-> None]
Raise(e, s, d) == [kind |-> "raise", exc |-> e, status |-> s, detail |-> d, value |-> None]

-----------------------------------------------------------------------------
(* Strings of hotel records, as sequences of characters *)

sTEST == <<"T", "E", "S", "T">>
sPROPERTY == <<"P", "R", "O", "P", "E", "R", "T", "Y">>
sVALIDATION == <<"V", "A", "L", "I", "D", "A", "T", "I", "O", "N">>
sADDRESS == <<"A", "D", "D", "R", "E", "S", "S">>
sHouseOfTravel == <<"h", "o", "u", "s", "e", " ", "o", "f", " ", "t", "r", "a", "v", "e", "l">>

Upper == <<"A", "B", "C", "D", "E", "F", "G", "H", "I", "J", "K", "L", "M",
           "N", "O", "P", "Q", "R", "S", "T", "U", "V", "W", "X", "Y", "Z">>
Lower == <<"a", "b", "c", "d", "e", "f", "g", "h", "i", "j", "k", "l", "m",
           "n", "o", "p", "q", "r", "s", "t", "u", "v", "w", "x", "y", "z">>

\* str.lower() on one character
LowerChar(c) ==
    IF \E i \in 1..26 : Upper[i] = c
    THEN Lower[CHOOSE i \in 1..26 : Upper[i] = c]
    ELSE c

\* str.lower()
StrLower(s) == [i \in 1..Len(s) |-> LowerChar(s[i])]

\* w in s
Contains(s, w) ==
    \E i \in 0..(Len(s) - Len(w)) : SubSeq(s, i + 1, i + Len(w)) = w

\* " ".join(lines)
RECURSIVE JoinSpace(_)
JoinSpace(lines) ==
    IF lines = <<>> THEN <<>>
    ELSE IF Len(lines) = 1 THEN lines[1]
    ELSE lines[1] \o <<" ">> \o JoinSpace(Tail(lines))

-----------------------------------------------------------------------------
(* filter_data.py: the listing filter *)

\* A hotel record: name and address may be absent, and so may address.lines.
\* An address is a JSON object, or (malformed) a JSON number.
Hotel(name, address) == [name |-> name, address |-> address]
Address(lines) == [type |-> "dict", lines |-> lines]
NumberAddress == [type |-> "int", lines |-> None]

ForbiddenNameWords == {sTEST, sPROPERTY, sVALIDATION}
ForbiddenAddressWords == {sTEST, sADDRESS}

\* the condition of line 49 without has_address and no_forbidden_address
KeepHotelByNameOnly(hotel) ==
    /\ hotel.name # None
    /\ ~\E word \in ForbiddenNameWords : Contains(Val(hotel.name), word)
    /\ ~Contains(StrLower(Val(hotel.name)), sHouseOfTravel)

\* the condition of line 49, from the five flags of lines 38-47
KeepHotel(hotel) ==
    LET has_name == hotel.name # None
        has_address == hotel.address # None /\ Val(hotel.address).lines # None
        no_forbidden_name ==
            has_name /\ ~\E word \in ForbiddenNameWords : Contains(Val(hotel.name), word)
        no_forbidden_address ==
            has_address /\ ~\E word \in ForbiddenAddressWords :
                Contains(JoinSpace(Val(Val(hotel.address).lines)), word)
        not_house_of_travel ==
            has_name /\ ~Contains(StrLower(Val(hotel.name)), sHouseOfTravel)
    IN  has_name /\ has_address /\ no_forbidden_name /\ no_forbidden_address
            /\ not_house_of_travel

\* the loop of lines 37-52 with insert(0, hotel) in place of append(hotel)
RECURSIVE FilterHotelsPrepending(_)
FilterHotelsPrepending(hotels) ==
    IF hotels = <<>> THEN <<>>
    ELSE FilterHotelsPrepending(Tail(hotels))
             \o (IF KeepHotel(Head(hotels)) THEN <<Head(hotels)>> ELSE <<>>)

\* the loop of lines 37-52: the records appended to filtered_data
RECURSIVE FilterHotels(_)
FilterHotels(hotels) ==
    IF hotels = <<>> THEN <<>>
    ELSE (IF KeepHotel(Head(hotels)) THEN <<Head(hotels)>> ELSE <<>>)
             \o FilterHotels(Tail(hotels))

\* the records the loop of lines 37-52 appends to neglected_data
RECURSIVE NeglectedHotels(_)
NeglectedHotels(hotels) ==
    IF hotels = <<>> THEN <<>>
    ELSE (IF KeepHotel(Head(hotels)) THEN <<>> ELSE <<Head(hotels)>>)
             \o NeglectedHotels(Tail(hotels))

\* line 39 on a record whose address is a number: "lines" in 5 raises TypeError
HotelRaises(hotel) ==
    hotel.address # None /\ Val(hotel.address).type # "dict"

\* A JSON file of the data directory: {"status": ..., "response": {"data": [...], ...}}
Response(data, meta) == [data |-> data, meta |-> meta]
Document(status, response) == [status |-> status, response |-> response]

\* lines 20-27 without the "status": 200 of line 21
json_schema_without_status == Document(None, Response(Some(<<>>), None))

\* lines 20-27
json_schema == Document(Some(200), Response(Some(<<>>), None))

TestFile == "data/test-1.json"
FilteredFile == "data/filtered.json"
NeglectedFile == "data/neglected.json"
Paths == {TestFile, FilteredFile, NeglectedFile}

\* filter_json(file): what it returns or raises, and the files it leaves.
\* open(file, "r") takes a path: given anything else it raises TypeError, and
\* FileNotFoundError when there is no such file.  The loop raises TypeError at a
\* record it cannot read, before anything is written.  Otherwise neglected.json
\* and filtered.json are written, and the function has no return statement.
filter_json(file, fs) ==
    IF file.type # "str"
    THEN [outcome |-> Raise("TypeError", None, ""), fs |-> fs]
    ELSE IF fs[file.val] = None
    THEN [outcome |-> Raise("FileNotFoundError", None, ""), fs |-> fs]
    ELSE LET data_json == Val(fs[file.val])
             hotels == IF data_json.status = Some(200) /\ data_json.response.data # None
                       THEN Val(data_json.response.data)
                       ELSE <<>>
             neglected_data == [json_schema EXCEPT
                                   !.response.data = Some(NeglectedHotels(hotels))]
             filtered_data == [json_schema EXCEPT
                                   !.response.data = Some(FilterHotels(hotels))]
         IN  IF \E i \in 1..Len(hotels) : HotelRaises(hotels[i])
             THEN [outcome |-> Raise("TypeError", None, ""), fs |-> fs]
             ELSE [outcome |-> ReturnNone,
                   fs |-> [fs EXCEPT ![NeglectedFile] = Some(neglected_data),
                                     ![FilteredFile] = Some(filtered_data)]]

-----------------------------------------------------------------------------
(* What the two upstream endpoints may answer *)

Tokens == {"tokA", "tokB"}

\* expires_in of a token response; None: the field is absent
ExpiresIns == {Some(60), Some(61), None}

TokenStatuses == {200, 401, 500}

NoResponse == [kind |-> "none", status |-> 0, access_token |-> "", expires_in |-> None,
               body |-> None, text |-> ""]
NetworkError == [NoResponse EXCEPT !.kind = "neterr"]

TokenResponse(s, t, e) ==
    [NoResponse EXCEPT !.kind = "http", !.status = s, !.access_token = t, !.expires_in = e]

TokenResponses ==
    {TokenResponse(200, t, e) : t \in Tokens, e \in ExpiresIns}
        \cup {[TokenResponse(s, "", None) EXCEPT !.text = "identity error"] :
                 s \in TokenStatuses \ {200}}
        \cup {NetworkError}

cTestHotel == <<"T", "e", "s", "t", " ", "H", "o", "t", "e", "l">>
cGrandPlaza == <<"G", "r", "a", "n", "d", " ", "P", "l", "a", "z", "a">>
cMainSt == <<"1", " ", "M", "a", "i", "n", " ", "S", "t">>
cKingSt == <<"5", " ", "K", "i", "n", "g", " ", "S", "t">>

\* a JSON object of the search API: {"data": [...]} or {"title": ...}
Json(data, title) == [data |-> data, title |-> title]

SearchBodies ==
    { Json(Some(<<>>), None),
      Json(Some(<< Hotel(Some(cTestHotel), Some(Address(Some(<<cMainSt>>)))),
                   Hotel(Some(sTEST), None),
                   Hotel(Some(cGrandPlaza), Some(Address(Some(<<cKingSt>>)))) >>), None) }

SearchStatuses == {200, 204, 302, 400, 401, 404, 500}

SearchResponse(s, b, t) ==
    [NoResponse EXCEPT !.kind = "http", !.status = s, !.body = b, !.text = t]

SearchResponses ==
    {SearchResponse(200, Some(b), "") : b \in SearchBodies}
        \cup {SearchResponse(s, None, "upstream error") : s \in SearchStatuses \ {200}}
        \cup {NetworkError}

-----------------------------------------------------------------------------
(* The files filter_json may be run on *)

hInn == <<"I", "n", "n">>
hSpa == <<"S", "p", "a">>
hTest == <<"T", "e", "s", "t">>
hHouseOfTravel == <<"H", "o", "u", "s", "e", " ", "O", "f", " ", "T", "r", "a", "v", "e", "l">>
hKing == <<"5", " ", "K">>
hMain == <<"1", " ", "M">>
hRd == <<"R", "d">>
hAddress == <<"a", "d", "d", "r", "e", "s", "s">>

GoodAddress == Some(Address(Some(<<hKing>>)))

\* One well-formed listing or two, and one record for each way to fall short.
SampleHotels ==
    { Hotel(Some(hInn), GoodAddress),
      Hotel(Some(hSpa), Some(Address(Some(<<hMain, hRd>>)))),
      Hotel(None, GoodAddress),
      Hotel(Some(<<>>), GoodAddress),
      Hotel(Some(sTEST), GoodAddress),
      Hotel(Some(hTest), GoodAddress),
      Hotel(Some(hHouseOfTravel), GoodAddress),
      Hotel(Some(hInn), None),
      Hotel(Some(hInn), Some(Address(None))),
      Hotel(Some(hInn), Some(NumberAddress)),
      Hotel(Some(hInn), Some(Address(Some(<<hMain, sADDRESS>>)))),
      Hotel(Some(hInn), Some(Address(Some(<<hAddress>>)))) }

RECURSIVE SeqsUpTo(_, _)
SeqsUpTo(S, n) ==
    IF n = 0 THEN {<<>>}
    ELSE LET shorter == SeqsUpTo(S, n - 1)
         IN  shorter \cup {Append(q, x) : q \in shorter, x \in S}

\* what test_hotels_client.py saves: {"status": ..., "response": <body>}
InputDocuments ==
    {Document(Some(200), Response(Some(hotels), meta)) :
         hotels \in SeqsUpTo(SampleHotels, MaxHotels), meta \in {None, Some("meta")}}
        \cup {Document(Some(404), Response(None, None))}

StartupDocument ==
    Document(Some(200), Response(Some(<<Hotel(Some(hInn), GoodAddress)>>), None))

-----------------------------------------------------------------------------
(* tenacity: @retry(stop=stop_after_attempt(3), wait=wait_exponential(...),  *)
(*                  retry=retry_if_exception_type(httpx.HTTPStatusError))   *)

StopAfterAttempt == 3

\* retry_if_exception_type(Exception): every exception is retried
retry_if_any_exception(out) == out.kind = "raise"

\* retry_if_exception_type(httpx.HTTPStatusError)
retry_if_exception_type(out) == out.kind = "raise" /\ out.exc = "HTTPStatusError"

\* What the wrapper does with the outcome of attempt n.
RetryDecision(out, n) ==
    IF ~retry_if_exception_type(out) THEN "done"     \* returned, or re-raised as it is
    ELSE IF n >= StopAfterAttempt THEN "give_up"     \* raise RetryError
    ELSE "sleep"                                      \* wait, then call again

\* The outcome the caller of the wrapped function sees once it is final.
RetryOutcome(out, n) ==
    IF RetryDecision(out, n) = "give_up" THEN Raise("RetryError", None, "") ELSE out

-----------------------------------------------------------------------------
(* get_access_token *)

Buffer == 60
DefaultExpiresIn == 1800

\* the comparison of line 81 turned round
CacheValidReversed(c, t) ==
    /\ c.token # None
    /\ Val(c.token) # ""
    /\ Val(c.expires_at) < t

\* the comparison of line 81 made non-strict
CacheValidNotStrict(c, t) ==
    /\ c.token # None
    /\ Val(c.token) # ""
    /\ Val(c.expires_at) >= t

\* line 81: _token_cache["token"] and _token_cache["expires_at"] > now
CacheValid(c, t) ==
    /\ c.token # None
    /\ Val(c.token) # ""
    /\ Val(c.expires_at) > t

\* line 104 without the buffer
ExpiresAtNoBuffer(t, expires_in) ==
    t + (IF expires_in = None THEN DefaultExpiresIn ELSE Val(expires_in))

\* line 104: now + timedelta(seconds=token_data.get("expires_in", 1800) - 60)
ExpiresAt(t, expires_in) ==
    t + (IF expires_in = None THEN DefaultExpiresIn ELSE Val(expires_in)) - Buffer

\* lines 102-104 with line 103 left out
StoreTokenExpiryOnly(c, t, response) ==
    [token |-> c.token,
     expires_at |-> Some(ExpiresAt(t, response.expires_in))]

\* lines 102-104 with line 104 skipped when the cache already has an expiry
StoreTokenKeepExpiry(c, t, response) ==
    [token |-> Some(response.access_token),
     expires_at |-> IF c.expires_at # None THEN c.expires_at
                    ELSE Some(ExpiresAt(t, response.expires_in))]

\* lines 102-104
StoreToken(c, t, response) ==
    [c EXCEPT !.token = Some(response.access_token),
              !.expires_at = Some(ExpiresAt(t, response.expires_in))]

\* line 100 with a fixed status code
TokenFailureGeneric(response) ==
    Raise("HTTPException", Some(500), "Failed to get access token")

\* line 100
TokenFailure(response) ==
    Raise("HTTPException", Some(response.status), "Failed to get access token")

\* lines 94-105, from the response on
get_access_token(response) ==
    IF response.kind = "neterr" THEN Raise("ConnectError", None, "")
    ELSE IF response.status # 200 THEN TokenFailure(response)
    ELSE Return(response.access_token)

-----------------------------------------------------------------------------
(* list_hotels_helper *)

\* line 143 with 400 left out
EmptyResultStatusesOnly404 == {404}

\* line 143
EmptyResultStatuses == {400, 404}

NoHotelsFound == Json(None, Some("NO HOTELS FOUND FOR REQUESTED LOCATION"))

Envelope(s, r) == [status |-> s, response |-> r]

\* httpx.Response.raise_for_status(): a 2xx response does not raise
raise_for_status(response) ==
    IF response.status \in 200..299 THEN ReturnNone
    ELSE Raise("HTTPStatusError", Some(response.status), response.text)

\* lines 132-149, from the response on
list_hotels_helper(response) ==
    IF response.kind = "neterr" THEN Raise("ConnectError", None, "")
    ELSE IF response.status = 200 THEN
        LET data == filter_json(PyDict(Val(response.body)), files).outcome
        IN  IF data.kind = "raise" THEN data
            ELSE Return(Envelope(response.status, data.value))
    ELSE IF response.status \in EmptyResultStatuses THEN
        Return(Envelope(response.status, Some(NoHotelsFound)))
    ELSE raise_for_status(response)

-----------------------------------------------------------------------------
(* list_hotels *)

\* lines 177-190; params is assigned at line 157, after get_access_token
ListHotelsExcept(e, paramsBound) ==
    IF ~paramsBound THEN Raise("UnboundLocalError", None, "")
    ELSE IF e.exc = "HTTPStatusError"
    THEN Raise("HTTPException", e.status, e.detail)
    ELSE Raise("HTTPException", Some(500), "Failed to fetch hotels")

\* lines 171-175, then the except clauses
ListHotelsAfterHelper(h) ==
    IF h.kind = "raise" THEN ListHotelsExcept(h, TRUE)
    ELSE IF h.value = None
    THEN ListHotelsExcept(Raise("AttributeError", None, ""), TRUE)
    ELSE h

-----------------------------------------------------------------------------
(* HotelList: the request body FastAPI validates before it calls list_hotels *)

\* latitude and longitude in whole degrees
HotelList(latitude, longitude, radius, radiusUnit) ==
    [latitude |-> latitude, longitude |-> longitude, radius |-> radius,
     radiusUnit |-> radiusUnit]

\* lines 28-40 without the field_validator of radiusUnit
HotelListValidAnyUnit(request) ==
    /\ request.latitude >= -90 /\ request.latitude <= 90
    /\ request.longitude >= -180 /\ request.longitude <= 180
    /\ request.radius >= 0

\* lines 28-40: confloat(ge=-90, le=90), confloat(ge=-180, le=180),
\* conint(ge=0), and validate_radius_unit
HotelListValid(request) ==
    /\ request.latitude >= -90 /\ request.latitude <= 90
    /\ request.longitude >= -180 /\ request.longitude <= 180
    /\ request.radius >= 0
    /\ request.radiusUnit \in {"KM", "MILE"}

\* Bodies like those test_hotels_client.py posts, and bodies at and just past
\* each limit.
SampleRequests ==
    { HotelList(11, 92, 5, "KM"),
      HotelList(90, -180, 0, "MILE"),
      HotelList(11, 92, 5, "INVALID"),
      HotelList(11, 92, 5, "km"),
      HotelList(100, -181, 5, "KM"),
      HotelList(91, 92, 5, "KM"),
      HotelList(-91, 92, 5, "KM"),
      HotelList(11, 181, 5, "KM"),
      HotelList(11, 92, -1, "KM") }

\* what FastAPI answers for a body that fails validation: 422, no handler call
RequestValidationError == Raise("RequestValidationError", Some(422), "")

-----------------------------------------------------------------------------
(* The coroutines *)

IdleCall ==
    [pc |-> "idle", entry |-> "", request |-> None, now |-> 0, attempt |-> 0,
     tokReqs |-> 0, getReqs |-> 0,
     tokResp |-> NoResponse, getResp |-> NoResponse, bearer |-> None,
     tokOutcome |-> Pending, helperOutcome |-> Pending, outcome |-> Pending]

\* client.get of list_hotels_helper, attempt n, with the headers list_hotels
\* built once from the token get_access_token returned (line 169)
IssueGet(r, n) ==
    [r EXCEPT !.pc = "get_await", !.attempt = n, !.getReqs = @ + 1,
              !.getResp = NoResponse, !.bearer = r.tokOutcome.value]

\* The caller takes the outcome of the wrapped get_access_token.
\*   get_access_token_dep (line 108) hands it on as it is;
\*   list_hotels (lines 155-171) goes on to the search, or to its except clauses.
AfterGetAccessToken(r, out) ==
    IF r.entry = "get_access_token_dep"
    THEN [r EXCEPT !.pc = "done", !.tokOutcome = out, !.outcome = out]
    ELSE LET r2 == [r EXCEPT !.now = 0, !.tokResp = NoResponse, !.tokOutcome = out]
         IN  IF out.kind = "return" THEN IssueGet(r2, 1)
             ELSE [r2 EXCEPT !.pc = "done", !.outcome = ListHotelsExcept(out, FALSE)]

\* lines 79-98 with a single-flight guard: a call that misses while another
\* call's token request is in flight joins it and sends nothing itself
EnterGetAccessTokenSingleFlight(p, r, n) ==
    IF CacheValid(cache, clock)
    THEN /\ call' = [call EXCEPT ![p] =
                AfterGetAccessToken([r EXCEPT !.now = clock], Return(Val(cache.token)))]
         /\ UNCHANGED tokenPosts
    ELSE IF \E q \in Procs \ {p} : call[q].pc = "tok_await"
    THEN /\ call' = [call EXCEPT ![p] = [r EXCEPT !.now = clock, !.pc = "tok_join"]]
         /\ UNCHANGED tokenPosts
    ELSE /\ call' = [call EXCEPT ![p] =
                [r EXCEPT !.now = clock, !.pc = "tok_await", !.attempt = n,
                          !.tokReqs = @ + 1, !.tokResp = NoResponse]]
         /\ tokenPosts' = tokenPosts + 1

\* get_access_token up to its await, attempt n: lines 79-98
EnterGetAccessToken(p, r, n) ==
    IF CacheValid(cache, clock)
    THEN /\ call' = [call EXCEPT ![p] =
                AfterGetAccessToken([r EXCEPT !.now = clock], Return(Val(cache.token)))]
         /\ UNCHANGED tokenPosts
    ELSE /\ call' = [call EXCEPT ![p] =
                [r EXCEPT !.now = clock, !.pc = "tok_await", !.attempt = n,
                          !.tokReqs = @ + 1, !.tokResp = NoResponse]]
         /\ tokenPosts' = tokenPosts + 1

NoRun == [file |-> "", outcome |-> Pending, n |-> 0]

\* the backend before its first request
InitBackend ==
    /\ clock = 0
    /\ cache = [token |-> None, expires_at |-> None]
    /\ call = [p \in Procs |-> IdleCall]
    /\ calls = 0
    /\ tokenPosts = 0

\* hotels.py imports filter_data, whose last line runs filter_json on data/test-1.json
StartupFiles ==
    filter_json(PyStr(TestFile),
                [f \in Paths |-> IF f = TestFile THEN Some(StartupDocument) ELSE None]).fs

Init ==
    /\ InitBackend
    /\ files = StartupFiles
    /\ filterRun = NoRun

\* A request arrives.  A body that fails the validation of HotelList is
\* answered at once; otherwise list_hotels runs up to its first HTTP request.
Call(p) ==
    /\ call[p].pc = "idle"
    /\ calls < MaxCalls
    /\ calls' = calls + 1
    /\ \E request \in SampleRequests :
          IF HotelListValid(request)
          THEN EnterGetAccessToken(p, [call[p] EXCEPT !.entry = "list_hotels",
                                                      !.request = Some(request)], 1)
          ELSE /\ call' = [call EXCEPT ![p] =
                      [@ EXCEPT !.pc = "done", !.entry = "rejected",
                                !.request = Some(request),
                                !.outcome = RequestValidationError]]
               /\ UNCHANGED tokenPosts
    /\ UNCHANGED <<clock, cache, files, filterRun>>

\* get_access_token_dep is awaited: get_access_token runs up to its HTTP request.
CallDep(p) ==
    /\ call[p].pc = "idle"
    /\ calls < MaxCalls
    /\ calls' = calls + 1
    /\ EnterGetAccessToken(p, [call[p] EXCEPT !.entry = "get_access_token_dep"], 1)
    /\ UNCHANGED <<clock, cache, files, filterRun>>

\* The identity endpoint answers; a failed refresh empties the cache.
TokenReplyInvalidating(p) ==
    /\ call[p].pc = "tok_await"
    /\ \E response \in TokenResponses :
        LET r == [call[p] EXCEPT !.tokResp = response]
            out == get_access_token(response)
        IN  /\ cache' = IF out.kind = "return" THEN StoreToken(cache, r.now, response)
                        ELSE [token |-> None, expires_at |-> None]
            /\ call' = [call EXCEPT ![p] =
                   IF RetryDecision(out, r.attempt) = "sleep"
                   THEN [r EXCEPT !.pc = "tok_sleep", !.now = 0]
                   ELSE AfterGetAccessToken([r EXCEPT !.now = 0],
                                            RetryOutcome(out, r.attempt))]
    /\ UNCHANGED <<clock, calls, tokenPosts, files, filterRun>>

\* The identity endpoint answers (or the connection fails).
TokenReply(p) ==
    /\ call[p].pc = "tok_await"
    /\ \E response \in TokenResponses :
        LET r == [call[p] EXCEPT !.tokResp = response]
            out == get_access_token(response)
        IN  /\ cache' = IF out.kind = "return" THEN StoreToken(cache, r.now, response) ELSE cache
            /\ call' = [call EXCEPT ![p] =
                   IF RetryDecision(out, r.attempt) = "sleep"
                   THEN [r EXCEPT !.pc = "tok_sleep", !.now = 0]
                   ELSE AfterGetAccessToken([r EXCEPT !.now = 0],
                                            RetryOutcome(out, r.attempt))]
    /\ UNCHANGED <<clock, calls, tokenPosts, files, filterRun>>

\* The search endpoint answers; a 401 makes the executor drop the cached token.
SearchReplyInvalidating(p) ==
    /\ call[p].pc = "get_await"
    /\ \E response \in SearchResponses :
        LET r == [call[p] EXCEPT !.getResp = response]
            out == list_hotels_helper(response)
        IN  /\ call' = [call EXCEPT ![p] =
                   IF RetryDecision(out, r.attempt) = "sleep"
                   THEN [r EXCEPT !.pc = "get_sleep"]
                   ELSE LET final == RetryOutcome(out, r.attempt)
                        IN  [r EXCEPT !.pc = "done", !.helperOutcome = final,
                                      !.outcome = ListHotelsAfterHelper(final)]]
            /\ cache' = IF response.kind = "http" /\ response.status = 401
                        THEN [token |-> None, expires_at |-> None]
                        ELSE cache
    /\ UNCHANGED <<clock, calls, tokenPosts, files, filterRun>>

\* The search endpoint answers (or the connection fails).
SearchReply(p) ==
    /\ call[p].pc = "get_await"
    /\ \E response \in SearchResponses :
        LET r == [call[p] EXCEPT !.getResp = response]
            out == list_hotels_helper(response)
        IN  call' = [call EXCEPT ![p] =
                IF RetryDecision(out, r.attempt) = "sleep"
                THEN [r EXCEPT !.pc = "get_sleep"]
                ELSE LET final == RetryOutcome(out, r.attempt)
                     IN  [r EXCEPT !.pc = "done", !.helperOutcome = final,
                                   !.outcome = ListHotelsAfterHelper(final)]]
    /\ UNCHANGED <<clock, cache, calls, tokenPosts, files, filterRun>>

\* tenacity's sleep is over: the wrapped function is called again.
RetryWake(p) ==
    /\ call[p].pc \in {"tok_sleep", "get_sleep"}
    /\ IF call[p].pc = "tok_sleep"
       THEN EnterGetAccessToken(p, call[p], call[p].attempt + 1)
       ELSE /\ call' = [call EXCEPT ![p] = IssueGet(call[p], call[p].attempt + 1)]
            /\ UNCHANGED tokenPosts
    /\ UNCHANGED <<clock, cache, calls, files, filterRun>>

\* The caller has its result; the coroutine is ready for the next call.
Finish(p) ==
    /\ call[p].pc = "done"
    /\ call' = [call EXCEPT ![p] = IdleCall]
    /\ UNCHANGED <<clock, cache, calls, tokenPosts, files, filterRun>>

\* Time passes.
Tick ==
    /\ clock < MaxClock
    /\ clock' = clock + 1
    /\ UNCHANGED <<cache, call, calls, tokenPosts, files, filterRun>>

\* Requests to POST /api/hotels/, one after another.
Next ==
    \/ \E p \in Requests : Call(p)
    \/ \E p \in Requests : TokenReply(p)
    \/ \E p \in Requests : SearchReply(p)
    \/ \E p \in Requests : RetryWake(p)
    \/ \E p \in Requests : Finish(p)
    \/ Tick

Spec == Init /\ [][Next]_vars

\* filter_json is called on a file of the data directory.
RunFilter(path) ==
    /\ filterRun.n < MaxRuns
    /\ LET run == filter_json(PyStr(path), files)
       IN  /\ files' = run.fs
           /\ filterRun' = [file |-> path, outcome |-> run.outcome, n |-> filterRun.n + 1]
    /\ UNCHANGED <<clock, cache, call, calls, tokenPosts>>

\* filter_data.py on the files test_hotels_client.py may have saved
InitFilter ==
    /\ InitBackend
    /\ \E doc \in InputDocuments :
          files = [f \in Paths |-> IF f = TestFile THEN Some(doc) ELSE None]
    /\ filterRun = NoRun

NextFilter == \E path \in Paths : RunFilter(path)

FilterSpec == InitFilter /\ [][NextFilter]_vars

\* Concurrent calls of get_access_token.
NextToken ==
    \/ \E p \in Callers : CallDep(p)
    \/ \E p \in Callers : TokenReply(p)
    \/ \E p \in Callers : Finish(p)
    \/ Tick

SpecToken == Init /\ [][NextToken]_vars

-----------------------------------------------------------------------------
(* Steps of one coroutine, as seen from outside *)

\* p enters get_access_token in this step
Enters(p) == call[p].pc = "idle" /\ call'[p].pc # "idle"

\* p receives the answer to its token request in this step
GetsTokenReply(p) == call[p].pc = "tok_await" /\ call'[p].pc # "tok_await"

\* p receives the answer to its search GET in this step
GetsSearchReply(p) == call[p].pc = "get_await" /\ call'[p].pc # "get_await"

-----------------------------------------------------------------------------
(* Token Manager *)

\* C1: a call of get_access_token made while the cache holds a token whose
\* expires_at is strictly after the current time returns exactly the cached
\* token, sends nothing to the identity endpoint and leaves the cache as it is.
C1_CacheHit ==
    [][\A p \in Procs :
          (Enters(p) /\ cache.token # None /\ Val(cache.expires_at) > clock)
              => /\ call'[p].pc = "done"
                 /\ call'[p].outcome = Return(Val(cache.token))
                 /\ call'[p].tokReqs = 0
                 /\ tokenPosts' = tokenPosts
                 /\ cache' = cache]_vars

\* Two calls have returned the same token and the identity endpoint has seen
\* one request: the first call fetched the token, the second found it cached.
C1_Witness ==
    \E p, q \in Procs :
        /\ p # q
        /\ call[p].pc = "done" /\ call[q].pc = "done"
        /\ call[p].tokReqs = 1 /\ call[q].tokReqs = 0
        /\ call[p].outcome.kind = "return"
        /\ call[q].outcome = call[p].outcome
        /\ tokenPosts = 1

\* C2: a call made when the cache is empty or its expires_at is not strictly
\* after the current time sends a token request before anything is returned;
\* when the answer is 200 the call has sent exactly one request, the cache
\* holds the new token and the call returns it.
C2_MissRefreshesOnce ==
    [][\A p \in Procs :
          /\ (Enters(p) /\ (cache.token = None \/ Val(cache.expires_at) <= clock))
                => /\ call'[p].pc = "tok_await"
                   /\ call'[p].outcome = Pending
                   /\ call'[p].tokReqs = 1
                   /\ tokenPosts' = tokenPosts + 1
          /\ (GetsTokenReply(p) /\ call'[p].tokResp.kind = "http"
                                /\ call'[p].tokResp.status = 200)
                => /\ call'[p].tokReqs = 1
                   /\ tokenPosts' = tokenPosts
                   /\ cache'.token = Some(call'[p].tokResp.access_token)
                   /\ call'[p].outcome = Return(call'[p].tokResp.access_token)]_vars

\* The second token request the identity endpoint has seen was the only one of
\* its call, and the token it brought has replaced the cached one.
C2_Witness ==
    \E p \in Procs :
        /\ call[p].pc = "done"
        /\ call[p].tokReqs = 1
        /\ call[p].outcome = Return("tokB")
        /\ cache.token = Some("tokB")
        /\ tokenPosts = 2
        /\ \A q \in Procs \ {p} : call[q].pc = "idle"

\* C3: when the identity endpoint answers 500, the call fails only after
\* exactly 3 token requests.
C3_ThreeAttempts ==
    \A p \in Procs :
        (call[p].pc = "done" /\ call[p].tokOutcome.kind = "raise"
            /\ call[p].tokOutcome.status = Some(500))
            => call[p].tokReqs = 3

\* C4: for every non-200 status of the identity endpoint, get_access_token
\* fails with an error that carries that status code.
C4_StatusCarried ==
    \A p \in Procs :
        (call[p].tokResp.kind = "http" /\ call[p].tokResp.status # 200)
            => /\ call[p].pc = "done"
               /\ call[p].outcome.kind = "raise"
               /\ call[p].outcome.status = Some(call[p].tokResp.status)

\* get_access_token has failed on a 401 of the identity endpoint.
C4_Witness ==
    \E p \in Procs :
        /\ call[p].pc = "done"
        /\ call[p].tokResp.status = 401
        /\ call[p].outcome.exc = "HTTPException"
        /\ call[p].outcome.status = Some(401)

\* get_access_token returns a token in this step
ReturnsToken(p) ==
    /\ call[p].pc \in {"idle", "tok_await"}
    /\ call'[p].pc = "done"
    /\ call'[p].outcome.kind = "return"

\* C5 as stated: a cached token always has an expires_at, and whenever a call
\* stores or returns a token the cached expires_at is strictly after the
\* current time.
C5_FreshWhenReturned ==
    [][/\ cache'.token # None => cache'.expires_at # None
       /\ \A p \in Procs : ReturnsToken(p) => Val(cache'.expires_at) > clock']_vars

\* C5 as amended: a cached token always has an expires_at; a call that returns
\* the cached token without a request does so only while expires_at is strictly
\* after the current time; a call that stores a token leaves an expires_at that
\* is strictly after the current time exactly when expires_in - 60 exceeds the
\* time that has passed since the call read the clock.
C5_FreshWhenValidated ==
    [][/\ cache'.token # None => cache'.expires_at # None
       /\ \A p \in Procs :
            /\ (ReturnsToken(p) /\ call'[p].tokReqs = 0)
                  => Val(cache'.expires_at) > clock'
            /\ (ReturnsToken(p) /\ call'[p].tokReqs > 0)
                  => LET e == call'[p].tokResp.expires_in
                         lifetime == (IF e = None THEN 1800 ELSE Val(e)) - 60
                     IN  (Val(cache'.expires_at) > clock')
                            <=> (lifetime > clock' - call[p].now)]_vars

\* A call has just stored and returned a token whose cached expires_at is not
\* after the current time, and another call has returned a cached token.
C5_Witness ==
    \E p, q \in Procs :
        /\ call[p].pc = "done" /\ call[p].tokReqs = 1
        /\ call[p].outcome.kind = "return"
        /\ cache.token = call[p].outcome.value
        /\ Val(cache.expires_at) <= clock
        /\ call[q].pc = "done" /\ call[q].tokReqs = 0
        /\ call[q].outcome.kind = "return"

\* C6: after a refresh answered with 200 the cache holds the access_token of
\* the response, and expires_at is now + expires_in - 60, now being the time
\* the call read at its start (expires_in is 1800 when the response has none).
C6_ExpiryComputation ==
    [][\A p \in Procs :
          (GetsTokenReply(p) /\ call'[p].tokResp.kind = "http"
                             /\ call'[p].tokResp.status = 200)
              => LET e == call'[p].tokResp.expires_in
                     expires_in == IF e = None THEN 1800 ELSE Val(e)
                 IN  cache' = [token |-> Some(call'[p].tokResp.access_token),
                               expires_at |-> Some(call[p].now + expires_in - 60)]]_vars

\* A refresh that took one second was answered with expires_in = 61: the token
\* it stored expires at the very second the answer arrived.
C6_Witness ==
    \E p \in Procs :
        /\ call[p].pc = "done"
        /\ call[p].tokResp.status = 200
        /\ call[p].tokResp.expires_in = Some(61)
        /\ cache.token = Some(call[p].tokResp.access_token)
        /\ cache.expires_at = Some(clock)
        /\ clock = 2

-----------------------------------------------------------------------------
(* Search Request Executor and list_hotels *)

Title == "NO HOTELS FOUND FOR REQUESTED LOCATION"

\* C7: when the search endpoint answers 200, list_hotels_helper returns
\* {status: 200, response: F}, F being the body with its data list replaced
\* by the records the listing filter keeps.
C7_FilteredEnvelope ==
    \A p \in Procs :
        (call[p].pc = "done" /\ call[p].getResp.kind = "http"
            /\ call[p].getResp.status = 200)
            => LET body == Val(call[p].getResp.body)
                   F == [body EXCEPT !.data = Some(FilterHotels(Val(body.data)))]
               IN  call[p].helperOutcome = Return([status |-> 200, response |-> Some(F)])

\* C8: a 400 or 404 of the search endpoint ends the call at once with the
\* envelope {status: code, response: {title: ...}}: nothing is raised, no
\* further GET is sent (one GET in all when it is the first answer), and
\* list_hotels returns that envelope.
C8_EmptyResult ==
    [][\A p \in Procs :
          (GetsSearchReply(p) /\ call'[p].getResp.kind = "http"
                              /\ call'[p].getResp.status \in {400, 404})
              => LET envelope ==
                         [status |-> call'[p].getResp.status,
                          response |-> Some([data |-> None, title |-> Some(Title)])]
                 IN  /\ call'[p].pc = "done"
                     /\ call'[p].helperOutcome = Return(envelope)
                     /\ call'[p].outcome = Return(envelope)
                     /\ call'[p].getReqs = call[p].getReqs
                     /\ call[p].attempt = 1 => call'[p].getReqs = 1]_vars

\* list_hotels has returned the 404 envelope after a single GET.
C8_Witness ==
    \E p \in Procs :
        /\ call[p].pc = "done"
        /\ call[p].getResp.status = 404
        /\ call[p].getReqs = 1
        /\ call[p].outcome.kind = "return"
        /\ Val(call[p].outcome.value).status = 404

\* C9: a call whose last answer has a status other than 200, 400 or 404 has
\* sent exactly 3 GETs and ends with an error; a call whose last answer is
\* 200, 400 or 404 returns that answer's envelope.
C9_RetryThenError ==
    \A p \in Procs :
        (call[p].pc = "done" /\ call[p].getResp.kind = "http")
            => IF call[p].getResp.status \in {200, 400, 404}
               THEN /\ call[p].helperOutcome.kind = "return"
                    /\ call[p].helperOutcome.value # None
                    /\ Val(call[p].helperOutcome.value).status = call[p].getResp.status
               ELSE /\ call[p].getReqs = 3
                    /\ call[p].helperOutcome.kind = "raise"

\* C10: once the retries of the token fetch or of the search GET are used up,
\* the error list_hotels raises carries the status code and the body of the
\* failing upstream response.
C10_UpstreamErrorPreserved ==
    \A p \in Procs :
        call[p].pc = "done"
            => /\ (call[p].tokOutcome.kind = "raise" /\ call[p].tokOutcome.status # None)
                    => /\ call[p].outcome.kind = "raise"
                       /\ call[p].outcome.status = call[p].tokOutcome.status
               /\ call[p].helperOutcome.exc = "RetryError"
                    => /\ call[p].outcome.kind = "raise"
                       /\ call[p].outcome.status = Some(call[p].getResp.status)
                       /\ call[p].outcome.detail = call[p].getResp.text

\* C11: whatever the status of the answer to the search GET, the call of the
\* search executor ends either with an envelope that has a status and a
\* response, or with an error: it never returns nothing.
C11_EnvelopeOrError ==
    \A p \in Procs :
        (call[p].pc = "done" /\ call[p].getResp.kind = "http")
            => \/ call[p].helperOutcome.kind = "raise"
               \/ /\ call[p].helperOutcome.kind = "return"
                  /\ call[p].helperOutcome.value # None
                  /\ Val(call[p].helperOutcome.value).response # None

\* C12: a network failure of the token POST or of the search GET is not
\* retried: the attempt that met it is the last one, no sleep follows, and the
\* connection error leaves the wrapped function as it is.  A token POST that
\* fails this way was the only one of its call.
C12_NetworkErrorNotRetried ==
    [][\A p \in Procs :
          /\ GetsTokenReply(p)
                => /\ call'[p].tokResp.kind = "neterr" => call'[p].pc # "tok_sleep"
                   /\ call'[p].tokOutcome.exc = "ConnectError"
                         => /\ call'[p].pc = "done"
                            /\ call'[p].tokReqs = 1
                            /\ call'[p].getReqs = 0
                            /\ tokenPosts' = tokenPosts
          /\ (GetsSearchReply(p) /\ call'[p].getResp.kind = "neterr")
                => /\ call'[p].pc = "done"
                   /\ call'[p].helperOutcome = Raise("ConnectError", None, "")
                   /\ call'[p].getReqs = call[p].getReqs]_vars

\* The first search GET of a call met a network failure and the call is over.
C12_Witness ==
    \E p \in Procs :
        /\ call[p].pc = "done"
        /\ call[p].getResp.kind = "neterr"
        /\ call[p].getReqs = 1
        /\ call[p].helperOutcome.exc = "ConnectError"

\* C13: however concurrent calls of get_access_token interleave, the cache is
\* either empty or holds the token and the expiry of one single refresh: every
\* change of the cache is made by one call receiving a 200 answer, and replaces
\* both fields with that call's own pair (its token, its now + expires_in - 60),
\* so the cache always holds the whole pair of the last call that wrote.
C13_CachePairOfOneRefresh ==
    [][/\ (cache'.token = None) = (cache'.expires_at = None)
       /\ cache' # cache
            => \E p \in Procs :
                  /\ GetsTokenReply(p)
                  /\ call'[p].tokResp.status = 200
                  /\ \A q \in Procs \ {p} : call'[q] = call[q]
                  /\ LET e == call'[p].tokResp.expires_in
                         expires_in == IF e = None THEN 1800 ELSE Val(e)
                     IN  cache' = [token |-> Some(call'[p].tokResp.access_token),
                                   expires_at |-> Some(call[p].now + expires_in - 60)]]_vars

\* Two refreshes overlapped: p stored a token that lasts 1740 seconds, and q,
\* which had posted before p's answer came, then stored its own token with its
\* own expiry.
C13_Witness ==
    \E p, q \in Procs :
        /\ p # q
        /\ call[p].pc = "done" /\ call[p].tokReqs = 1
        /\ call[p].tokResp.status = 200 /\ call[p].tokResp.expires_in = None
        /\ call[q].pc = "done" /\ call[q].tokReqs = 1
        /\ call[q].tokResp.status = 200 /\ call[q].tokResp.expires_in = Some(60)
        /\ call[q].tokResp.access_token # call[p].tokResp.access_token
        /\ clock = 0
        /\ cache = [token |-> Some(call[q].tokResp.access_token), expires_at |-> Some(0)]

-----------------------------------------------------------------------------
(* Listing Filter: filter_json reads its input from the file it is given and
   writes what it keeps to data/filtered.json *)

\* this step is a call of filter_json that ran to its end
FilterReturns == filterRun'.n = filterRun.n + 1 /\ filterRun'.outcome.kind = "return"

\* the document that call read, and the one it wrote to filtered.json
InputRead == Val(files[filterRun'.file])
FilteredWritten == Val(files'[FilteredFile])

\* the data list of a document
DataOf(doc) == IF doc.response.data = None THEN <<>> ELSE Val(doc.response.data)

\* the record has no name, no address, or an address without lines
LacksField(hotel) ==
    \/ hotel.name = None
    \/ hotel.address = None
    \/ Val(hotel.address).lines = None

\* C14: a record with no name field, no address field, or an address without a
\* lines field never appears in the filtered output written for the input that
\* holds it.
C14_ExcludesIncomplete ==
    [][FilterReturns
          => /\ \A j \in 1..Len(DataOf(FilteredWritten)) :
                    ~LacksField(DataOf(FilteredWritten)[j])
             /\ \A i \in 1..Len(DataOf(InputRead)) :
                    LacksField(DataOf(InputRead)[i])
                        => \A j \in 1..Len(DataOf(FilteredWritten)) :
                               DataOf(FilteredWritten)[j] # DataOf(InputRead)[i]]_vars

\* The input held a record without a name next to a listing that was kept.
C14_Witness ==
    /\ filterRun.file = TestFile
    /\ filterRun.outcome.kind = "return"
    /\ \E i \in 1..Len(DataOf(Val(files[TestFile]))) :
           DataOf(Val(files[TestFile]))[i].name = None
    /\ Len(DataOf(Val(files[FilteredFile]))) = 1

\* str.upper() on one character, and on a string
UpperChar(c) ==
    IF \E i \in 1..26 : Lower[i] = c
    THEN Upper[CHOOSE i \in 1..26 : Lower[i] = c]
    ELSE c

StrUpper(s) == [i \in 1..Len(s) |-> UpperChar(s[i])]

sHOUSE_OF_TRAVEL == StrUpper(sHouseOfTravel)

\* the uppercased name holds TEST, PROPERTY, VALIDATION or HOUSE OF TRAVEL, or
\* the uppercased, space-joined address lines hold TEST or ADDRESS
HasForbiddenText(hotel) ==
    \/ /\ hotel.name # None
       /\ \E word \in {sTEST, sPROPERTY, sVALIDATION, sHOUSE_OF_TRAVEL} :
              Contains(StrUpper(Val(hotel.name)), word)
    \/ /\ ~LacksField(hotel)
       /\ \E word \in {sTEST, sADDRESS} :
              Contains(StrUpper(JoinSpace(Val(Val(hotel.address).lines))), word)

\* C15: no record of the filtered output has a name that contains TEST,
\* PROPERTY, VALIDATION or HOUSE OF TRAVEL, or address lines that, joined by
\* spaces, contain TEST or ADDRESS, letter case being ignored.
C15_ExcludesForbiddenAnyCase ==
    files[FilteredFile] # None
        => \A j \in 1..Len(DataOf(Val(files[FilteredFile]))) :
               ~HasForbiddenText(DataOf(Val(files[FilteredFile]))[j])

\* the five conditions a record has to meet
MeetsFiveConditions(hotel) ==
    /\ hotel.name # None /\ Val(hotel.name) # <<>>
    /\ ~LacksField(hotel)
    /\ ~HasForbiddenText(hotel)

\* C16: the filtered output holds exactly the records of the input that meet
\* all five conditions (a non-empty name, address.lines, no forbidden word in
\* the name, none in the address, not HOUSE OF TRAVEL), in their order.
C16_KeptIffFiveConditions ==
    [][(FilterReturns /\ InputRead.status = Some(200))
          => DataOf(FilteredWritten)
                 = SelectSeq(DataOf(InputRead), MeetsFiveConditions)]_vars

\* C17: filtering is idempotent: filter_json run on the document an earlier
\* run wrote to filtered.json writes that same document again.
C17_Idempotent ==
    [][(FilterReturns /\ filterRun'.file = FilteredFile)
          => files'[FilteredFile] = files[FilteredFile]]_vars

\* The first run dropped one of two records; the second run read what the
\* first had written.
C17_Witness ==
    /\ filterRun.n = 2
    /\ filterRun.file = FilteredFile
    /\ filterRun.outcome.kind = "return"
    /\ Len(DataOf(Val(files[TestFile]))) = 2
    /\ Len(DataOf(Val(files[FilteredFile]))) = 1

\* a can be had from b by deleting elements of b
RECURSIVE IsSubsequence(_, _)
IsSubsequence(a, b) ==
    IF a = <<>> THEN TRUE
    ELSE IF b = <<>> THEN FALSE
    ELSE IF Head(a) = Head(b) THEN IsSubsequence(Tail(a), Tail(b))
    ELSE IsSubsequence(a, Tail(b))

\* C18: the data list of the filtered output is a subsequence of the data list
\* of the input: the surviving records keep their relative order, and none is
\* duplicated or invented.
C18_OrderPreserved ==
    [][FilterReturns
          => IsSubsequence(DataOf(FilteredWritten), DataOf(InputRead))]_vars

\* Two different listings were both kept, in the order of the input.
C18_Witness ==
    /\ filterRun.file = TestFile
    /\ filterRun.outcome.kind = "return"
    /\ Len(DataOf(Val(files[FilteredFile]))) = 2
    /\ DataOf(Val(files[FilteredFile]))[1] # DataOf(Val(files[FilteredFile]))[2]
    /\ DataOf(Val(files[FilteredFile])) = DataOf(Val(files[TestFile]))

\* C19: the filter never fails: run on any input document, records with
\* malformed fields included (an address that is not a mapping), filter_json
\* raises nothing; the malformed record is merely left out.
C19_NeverFails ==
    [][(filterRun'.n = filterRun.n + 1 /\ files[filterRun'.file] # None)
          => filterRun'.outcome.kind # "raise"]_vars

\* C20: the filtered output has the shape of the input: every field of the
\* input document other than the data list is passed through unchanged, and
\* only the data list is replaced.
C20_ShapePassedThrough ==
    [][FilterReturns
          => FilteredWritten
                 = [InputRead EXCEPT !.response.data = FilteredWritten.response.data]]_vars

-----------------------------------------------------------------------------
(* Concurrency of the token refresh, and what list_hotels hands its caller *)

\* C21: refreshes are not single-flight: a call that finds the cache empty or
\* expired while another call's token request is still in flight sends a token
\* request of its own, so that two requests are in flight for one expiry.
C21_NoSingleFlight ==
    [][\A p \in Procs :
          (/\ Enters(p)
           /\ cache.token = None \/ Val(cache.expires_at) <= clock
           /\ \E q \in Procs \ {p} : call[q].pc = "tok_await")
              => /\ call'[p].pc = "tok_await"
                 /\ call'[p].tokReqs = 1
                 /\ tokenPosts' = tokenPosts + 1
                 /\ \E q \in Procs \ {p} : call'[q].pc = "tok_await"]_vars

\* The cached token has expired, and two calls that both saw it expired each
\* have a token request in flight.
C21_Witness ==
    \E p, q \in Procs :
        /\ p # q
        /\ call[p].pc = "tok_await" /\ call[q].pc = "tok_await"
        /\ cache.token # None
        /\ Val(cache.expires_at) <= call[p].now
        /\ Val(cache.expires_at) <= call[q].now
        /\ tokenPosts = 3

\* C22: every call of list_hotels ends either by returning an envelope with a
\* status and a response, or by raising HTTPException; a failure of
\* get_access_token reaches the caller as an HTTPException too.
C22_EnvelopeOrHTTPException ==
    \A p \in Procs :
        (call[p].pc = "done" /\ call[p].entry = "list_hotels")
            => \/ /\ call[p].outcome.kind = "return"
                  /\ call[p].outcome.value # None
                  /\ Val(call[p].outcome.value).response # None
               \/ /\ call[p].outcome.kind = "raise"
                  /\ call[p].outcome.exc = "HTTPException"

\* C23: a token refresh that fails, by an answer other than 200 or by a
\* network failure, leaves the cache as it was: token and expires_at after the
\* failed attempt are those before it.
C23_FailedRefreshKeepsCache ==
    [][\A p \in Procs :
          (GetsTokenReply(p) /\ call'[p].tokOutcome.kind # "return")
              => cache' = cache]_vars

\* A token cached by an earlier call has expired, the refresh of the present
\* call was refused, and the cache still holds the old pair.
C23_Witness ==
    \E p \in Procs :
        /\ call[p].pc = "done"
        /\ call[p].tokOutcome.kind = "raise"
        /\ call[p].tokOutcome.status = Some(500)
        /\ cache.token # None
        /\ Val(cache.expires_at) <= clock
        /\ tokenPosts = 2

\* C24: the search executor never touches the token cache: from the first GET
\* of a request to its end, whatever the answers (401 included) and through
\* every retry, the cached pair stays as it is, and every GET of the request
\* carries the token get_access_token returned to it; the cache changes only
\* in a step of get_access_token.
C24_ExecutorKeepsCache ==
    [][/\ \A p \in Procs :
             call[p].pc \in {"get_await", "get_sleep"}
                 => /\ cache' = cache
                    /\ call'[p].pc \in {"get_await", "get_sleep"}
                          => /\ call'[p].bearer = call[p].bearer
                             /\ call'[p].bearer = call'[p].tokOutcome.value
       /\ cache' # cache => \E p \in Procs : GetsTokenReply(p)]_vars

\* The search endpoint refused the token three times; the three GETs carried
\* the same token, and it is still the cached one.
C24_Witness ==
    \E p \in Procs :
        /\ call[p].pc = "done"
        /\ call[p].getResp.status = 401
        /\ call[p].getReqs = 3
        /\ call[p].bearer # None
        /\ cache.token = call[p].bearer

\* C25: a request whose radiusUnit is neither KM nor MILE, or whose latitude
\* is outside [-90, 90] or longitude outside [-180, 180], is rejected before
\* list_hotels runs: it is answered with a validation error, and it causes no
\* token request, no search GET and no change of the token cache.
C25_InvalidRequestRejected ==
    [][\A p \in Procs :
          (/\ Enters(p)
           /\ call'[p].request # None
           /\ LET request == Val(call'[p].request)
              IN  \/ request.radiusUnit \notin {"KM", "MILE"}
                  \/ request.latitude < -90 \/ request.latitude > 90
                  \/ request.longitude < -180 \/ request.longitude > 180)
              => /\ call'[p].pc = "done"
                 /\ call'[p].entry # "list_hotels"
                 /\ call'[p].outcome.kind = "raise"
                 /\ call'[p].outcome.status = Some(422)
                 /\ call'[p].tokReqs = 0 /\ call'[p].getReqs = 0
                 /\ tokenPosts' = tokenPosts
                 /\ cache' = cache]_vars

\* A request with radiusUnit INVALID arrived while the cached token had
\* expired: it was rejected, no token request was sent for it, and the cache
\* still holds the expired token.
C25_Witness ==
    \E p \in Procs :
        /\ call[p].pc = "done"
        /\ call[p].request # None
        /\ Val(call[p].request).radiusUnit = "INVALID"
        /\ call[p].outcome.status = Some(422)
        /\ call[p].tokReqs = 0
        /\ cache.token # None /\ Val(cache.expires_at) <= clock
        /\ tokenPosts = 1

====
